---------------------------- MODULE Spec2Model ----------------------------
(***************************************************************************)
(* Model of the swing score engine (src/swing_score_engine.py) and of the  *)
(* /api/analyze handler around it (src/app_new.py, src/market_analyst.py). *)
(* The license table, the license gate in front of the protected endpoints *)
(* and the Stripe webhook (src/database.py, src/auth.py,                   *)
(* src/stripe_integration.py, src/manage_keys.py) are modelled further     *)
(* down, as requests that interleave on the table.                         *)
(*                                                                         *)
(* A price series (pandas DataFrame) is a record of what the scorers read  *)
(* from it: the number of bars (as a class), the last close, the close six *)
(* bars back, the value the indicator library puts in the last row of each *)
(* indicator column, and the set of columns the frame holds.               *)
(*                                                                         *)
(* Prices are positive integers; ratios of prices are compared exactly by  *)
(* cross multiplication, so a percentage such as                           *)
(* (close - ema)/ema*100 <= 2 is (close - ema)*100 <= 2*ema.               *)
(*                                                                         *)
(* An indicator value is [k |-> "num", v |-> n], or undefined:             *)
(* [k |-> "NaN"] (a NaN in the last row) or [k |-> "None"] (pandas_ta      *)
(* returns no series for a series shorter than the window, and the column  *)
(* assigned from it holds None).  pd.isna is true of both; formatting with *)
(* ':.2f' raises TypeError for None and prints 'nan' for NaN.              *)
(***************************************************************************)
EXTENDS Integers, Sequences, FiniteSets, TLC

VARIABLES
    pc,             \* position of the call in progress
    stock_df,       \* the ticker series
    spy_df,         \* the market proxy series
    vix_df,         \* the volatility series, or NoFrame
    tech_result,    \* what calculate_technicals returned
    regime_result,  \* what calculate_market_regime returned
    rel_result,     \* what calculate_relative_strength returned
    result,         \* what calculate_score returned
    ai_result,      \* what the AI analysis returned to analyze_ticker
    response,       \* the HTTP response of analyze_ticker
    licenses,       \* the rows of the licenses table, in order of creation
    reqs            \* the HTTP requests in flight against the license database

vars == <<pc, stock_df, spy_df, vix_df, tech_result, regime_result, rel_result, result,
          ai_result, response, licenses, reqs>>

-----------------------------------------------------------------------------
(* Values *)

Num(n) == [k |-> "num", v |-> n]
NaN == [k |-> "NaN", v |-> 0]
None == [k |-> "None", v |-> 0]
Undefined == {NaN, None}

\* pd.isna(x)
isna(x) == x.k # "num"

\* `x if not pd.isna(x) else None`
none_if_na(x) == IF isna(x) THEN None ELSE x

Max(a, b) == IF a >= b THEN a ELSE b
Min(a, b) == IF a <= b THEN a ELSE b
Abs(a) == IF a >= 0 THEN a ELSE -a

\* No value: a variable not yet assigned, a frame that is None
NoFrame == [rows |-> -1]
NoResult == [none |-> TRUE]

-----------------------------------------------------------------------------
(* calculate_technicals *)

\* Trend filter: <<base score, cap, in_uptrend, trend_filter text>>
\* Variant: the downtrend branch forgets max_score_cap = 40
trend_filter_wrong_cap(price, sma_200) ==
    IF ~isna(sma_200)
    THEN IF price > sma_200.v
         THEN [score |-> 50, cap |-> 100, in_uptrend |-> "True", text |-> "UPTREND"]
         ELSE [score |-> 0, cap |-> 100, in_uptrend |-> "False", text |-> "DOWNTREND"]
    ELSE [score |-> 25, cap |-> 100, in_uptrend |-> "None", text |-> "Insufficient data"]

trend_filter(price, sma_200) ==
    IF ~isna(sma_200)
    THEN IF price > sma_200.v
         THEN [score |-> 50, cap |-> 100, in_uptrend |-> "True", text |-> "UPTREND"]
         ELSE [score |-> 0, cap |-> 40, in_uptrend |-> "False", text |-> "DOWNTREND"]
    ELSE [score |-> 25, cap |-> 100, in_uptrend |-> "None", text |-> "Insufficient data"]

\* RSI dip bonus: <<rsi_score, rsi_signal text>>
\* Variant: the overbought penalty is 10 points
rsi_bonus_mild_penalty(rsi) ==
    IF ~isna(rsi)
    THEN IF rsi.v > 70 THEN [score |-> -10, text |-> "OVERBOUGHT"]
         ELSE IF 50 <= rsi.v /\ rsi.v <= 70 THEN [score |-> 10, text |-> "MOMENTUM"]
         ELSE IF 30 <= rsi.v /\ rsi.v < 50 THEN [score |-> 30, text |-> "SWEET SPOT"]
         ELSE [score |-> 10, text |-> "OVERSOLD"]
    ELSE [score |-> 0, text |-> "RSI unavailable"]

\* Variant: the band edges 30 and 50 fall in the band below
rsi_bonus_shifted_band(rsi) ==
    IF ~isna(rsi)
    THEN IF rsi.v > 70 THEN [score |-> -20, text |-> "OVERBOUGHT"]
         ELSE IF 50 < rsi.v /\ rsi.v <= 70 THEN [score |-> 10, text |-> "MOMENTUM"]
         ELSE IF 30 < rsi.v /\ rsi.v <= 50 THEN [score |-> 30, text |-> "SWEET SPOT"]
         ELSE [score |-> 10, text |-> "OVERSOLD"]
    ELSE [score |-> 0, text |-> "RSI unavailable"]

rsi_bonus(rsi) ==
    IF ~isna(rsi)
    THEN IF rsi.v > 70 THEN [score |-> -20, text |-> "OVERBOUGHT"]
         ELSE IF 50 <= rsi.v /\ rsi.v <= 70 THEN [score |-> 10, text |-> "MOMENTUM"]
         ELSE IF 30 <= rsi.v /\ rsi.v < 50 THEN [score |-> 30, text |-> "SWEET SPOT"]
         ELSE [score |-> 10, text |-> "OVERSOLD"]
    ELSE [score |-> 0, text |-> "RSI unavailable"]

\* EMA proximity: ema_distance_pct = ((price - ema_20)/ema_20)*100 is the
\* fraction num/den with den = ema_20 > 0
\* Variant: the comparisons exchange <= with < and > with >=
ema_bonus_strict_bands(price, ema_20) ==
    IF ~isna(ema_20)
    THEN LET num == (price - ema_20.v) * 100
             den == ema_20.v
         IN  IF Abs(num) < 2 * den THEN [score |-> 20, text |-> "NEAR SUPPORT"]
             ELSE IF num >= 10 * den THEN [score |-> -10, text |-> "EXTENDED"]
             ELSE IF num <= -10 * den THEN [score |-> -10, text |-> "FALLING"]
             ELSE [score |-> 0, text |-> "MODERATE"]
    ELSE [score |-> 0, text |-> "20 EMA unavailable"]

ema_bonus(price, ema_20) ==
    IF ~isna(ema_20)
    THEN LET num == (price - ema_20.v) * 100
             den == ema_20.v
         IN  IF Abs(num) <= 2 * den THEN [score |-> 20, text |-> "NEAR SUPPORT"]
             ELSE IF num > 10 * den THEN [score |-> -10, text |-> "EXTENDED"]
             ELSE IF num < -10 * den THEN [score |-> -10, text |-> "FALLING"]
             ELSE [score |-> 0, text |-> "MODERATE"]
    ELSE [score |-> 0, text |-> "20 EMA unavailable"]

\* The columns calculate_technicals assigns to the frame it is given
technicals_columns(df) == [df EXCEPT !.cols = @ \cup {"sma_200", "ema_20", "rsi"}]

\* final_score = max(0, min(score, max_score_cap))
\* Variant: the cap without the floor at 0
apply_cap_no_floor(score, max_score_cap) == Min(score, max_score_cap)

apply_cap(score, max_score_cap) == Max(0, Min(score, max_score_cap))

calculate_technicals(df) ==
    IF df.rows = 0
    THEN \* df['close'].iloc[-1] raises IndexError: the except branch
         [score |-> 0, details |-> [error |-> "IndexError"]]
    ELSE LET current_price == df.close
             trend == trend_filter(current_price, df.sma_200)
             rsi == rsi_bonus(df.rsi)
             ema == ema_bonus(current_price, df.ema_20)
             score == trend.score + rsi.score + ema.score
             final_score == apply_cap(score, trend.cap)
             details ==
                 [raw_values |-> [price |-> current_price,
                                  sma_200 |-> none_if_na(df.sma_200),
                                  ema_20 |-> none_if_na(df.ema_20),
                                  rsi |-> none_if_na(df.rsi)],
                  trend_filter |-> trend.text,
                  in_uptrend |-> trend.in_uptrend,
                  rsi_signal |-> rsi.text,
                  rsi_score |-> rsi.score,
                  ema_signal |-> ema.text,
                  ema_score |-> ema.score,
                  trend_score |-> IF trend.in_uptrend = "True" THEN 50 ELSE 0]
                 @@ (IF ~isna(df.ema_20)
                     THEN [ema_distance_pct |->
                              [num |-> (current_price - df.ema_20.v) * 100,
                               den |-> df.ema_20.v]]
                     ELSE <<>>)
                 @@ (IF trend.cap < 100
                     THEN [cap_applied |-> trend.cap]
                     ELSE <<>>)
         IN  [score |-> final_score, details |-> details]

-----------------------------------------------------------------------------
(* calculate_market_regime *)

\* SPY trend points: close > SMA50 gives 15, anything else 0
spy_trend_points(spy_current, spy_sma_50) ==
    IF ~isna(spy_sma_50) /\ spy_current > spy_sma_50.v THEN 15 ELSE 0

\* `vix_df is not None and len(vix_df) > 0`
vix_available(vix) == vix # NoFrame /\ vix.rows > 0

\* VIX fear gauge: <<vix_score, details['vix'] text>>
vix_gauge(vix) ==
    IF vix_available(vix)
    THEN IF vix.close < 20 THEN [score |-> 15, text |-> "Low Fear"]
         ELSE IF vix.close > 30 THEN [score |-> -20, text |-> "HIGH FEAR"]
         ELSE [score |-> 0, text |-> "Elevated"]
    ELSE [score |-> 0, text |-> "Not available (assuming neutral)"]

\* The column calculate_market_regime assigns to the frame it is given
regime_columns(df) == [df EXCEPT !.cols = @ \cup {"sma_50"}]

\* `return {'score': max(0, score), ...}`
regime_floor(score) == Max(0, score)

calculate_market_regime(spy, vix) ==
    IF spy.rows = 0
    THEN \* spy_df['close'].iloc[-1] raises IndexError; score is still 0
         [score |-> regime_floor(0), details |-> [error |-> "IndexError"]]
    ELSE LET spy_current == spy.close
             spy_sma_50 == spy.sma_50
             bull == ~isna(spy_sma_50) /\ spy_current > spy_sma_50.v
         IN  IF ~bull /\ spy_sma_50 = None
             THEN \* the 'Bear' f-string formats None with ':.2f': TypeError,
                  \* caught before any key is set and before the VIX is read
                  [score |-> regime_floor(0), details |-> [error |-> "TypeError"]]
             ELSE LET trend == spy_trend_points(spy_current, spy_sma_50)
                      gauge == vix_gauge(vix)
                      score == trend + gauge.score
                  IN  [score |-> regime_floor(score),
                       details |-> [spy_trend |-> IF bull THEN "Bull" ELSE "Bear",
                                    vix |-> gauge.text,
                                    regime_score |-> regime_floor(score)]]

-----------------------------------------------------------------------------
(* calculate_relative_strength *)

\* A 5-bar return ((close[-1] - close[-6])/close[-6])*100 as the fraction
\* num/den, den = close[-6] > 0
five_day_return(df) == [num |-> (df.close - df.close6) * 100, den |-> df.close6]

\* a < b, a > b for fractions with positive denominators
frac_lt(a, b) == a.num * b.den < b.num * a.den
frac_gt(a, b) == a.num * b.den > b.num * a.den
Zero == [num |-> 0, den |-> 1]

\* KILL SWITCH condition
\* Variant: `or` in place of `and`
kill_condition_or(stock_return, spy_return) ==
    frac_lt(stock_return, Zero) \/ frac_gt(spy_return, Zero)

kill_condition(stock_return, spy_return) ==
    frac_lt(stock_return, Zero) /\ frac_gt(spy_return, Zero)

\* Leader vs Laggard
\* Variant: >= in place of >
leader_score_inclusive(stock_return, spy_return) ==
    IF ~frac_lt(stock_return, spy_return) THEN 20 ELSE 0

leader_score(stock_return, spy_return) ==
    IF frac_gt(stock_return, spy_return) THEN 20 ELSE 0

\* Returns [score, details, kill_switch] (the tuple the code returns)
calculate_relative_strength(stock, spy) ==
    IF stock.rows < 6 \/ spy.rows < 6
    THEN \* .iloc[-6] raises IndexError before any key is set
         [score |-> 0, details |-> [error |-> "IndexError"], kill_switch |-> FALSE]
    ELSE LET stock_return == five_day_return(stock)
             spy_return == five_day_return(spy)
             returns == [stock_5d_return |-> stock_return,
                         spy_5d_return |-> spy_return]
         IN  IF kill_condition(stock_return, spy_return)
             THEN [score |-> 0,
                   details |-> returns @@ [status |-> "RELATIVE WEAKNESS (Auto-Fail)"],
                   kill_switch |-> TRUE]
             ELSE LET score == leader_score(stock_return, spy_return)
                  IN  [score |-> score,
                       details |-> returns @@
                           [status |-> IF score = 20 THEN "Leader (+20)" ELSE "Laggard (0)"],
                       kill_switch |-> FALSE]

-----------------------------------------------------------------------------
(* _get_verdict *)

\* Variant: > in place of >= at each threshold
get_verdict_strict(score, kill_switch) ==
    IF kill_switch THEN "AVOID (Rel. Weakness)"
    ELSE IF score > 80 THEN "STRONG BUY"
    ELSE IF score > 60 THEN "BUY"
    ELSE IF score > 40 THEN "HOLD"
    ELSE "AVOID"

get_verdict(score, kill_switch) ==
    IF kill_switch THEN "AVOID (Rel. Weakness)"
    ELSE IF score >= 80 THEN "STRONG BUY"
    ELSE IF score >= 60 THEN "BUY"
    ELSE IF score >= 40 THEN "HOLD"
    ELSE "AVOID"

-----------------------------------------------------------------------------
(* calculate_trade_setup: price levels are in thousandths of the price     *)
(* unit (ema_20 * 0.98 is ema_20 * 980), percentages in tenths of a percent *)

\* round(a/b) to the nearest integer, ties to even (Python's round), b > 0
round_half_even(a, b) ==
    LET q == a \div b
        r == a - q * b
    IN  IF 2 * r < b THEN q
        ELSE IF 2 * r > b THEN q + 1
        ELSE IF q % 2 = 0 THEN q ELSE q + 1

\* The columns calculate_trade_setup assigns to the frame it is given
trade_setup_columns(df) == [df EXCEPT !.cols = @ \cup {"ema_20", "sma_50", "sma_200", "atr"}]

\* Variant: the except block reports the error alone
trade_setup_default_unshaped(e) == [error |-> e]

\* `except Exception as e: return {...}`: the default structure
trade_setup_default(e) ==
    [buy_min |-> 0, buy_max |-> 0, sell_stop |-> 0,
     target_safe |-> 0, target_safe_pct |-> 40,
     target_aggro |-> 0, target_aggro_pct |-> 100,
     prob_safe |-> 75, prob_aggro |-> 40,
     volatility_supported |-> TRUE, recommended |-> "safe",
     error |-> e]

\* Variant: the stop takes the lower of the two levels
stop_loss_lower(current_price, sma_200) ==
    IF ~isna(sma_200)
    THEN Min(sma_200.v * 990, current_price * 920)
    ELSE current_price * 920

\* Stop loss: max(sma_200 * 0.99, current_price * 0.92), or the latter alone
stop_loss(current_price, sma_200) ==
    IF ~isna(sma_200)
    THEN Max(sma_200.v * 990, current_price * 920)
    ELSE current_price * 920

\* Variant: a 50 SMA exactly 4% above the price is retargeted too
base_target_inclusive(current_price, sma_50) ==
    IF /\ ~isna(sma_50)
       /\ sma_50.v > current_price
       /\ (sma_50.v - current_price) * 100 <= 4 * current_price
    THEN sma_50.v * 995
    ELSE current_price * 1040

\* Target A: +4%, or just below a 50 SMA that is above the price and
\* closer than 4% ((sma_50 - price) / price < 0.04)
base_target(current_price, sma_50) ==
    IF /\ ~isna(sma_50)
       /\ sma_50.v > current_price
       /\ (sma_50.v - current_price) * 100 < 4 * current_price
    THEN sma_50.v * 995
    ELSE current_price * 1040

\* Variant: the trend boost is 20 points under the same cap of 55
aggro_probability_capped_boost(uptrend, volatility_supported) ==
    LET boosted == IF uptrend THEN Min(55, 40 + 20) ELSE 40
    IN  IF ~volatility_supported THEN Max(20, boosted - 15) ELSE boosted

\* prob_aggro: 40, +10 (at most 55) above the 200 SMA, -15 (at least 20)
\* when the volatility does not support the move
aggro_probability(uptrend, volatility_supported) ==
    LET boosted == IF uptrend THEN Min(55, 40 + 10) ELSE 40
    IN  IF ~volatility_supported THEN Max(20, boosted - 15) ELSE boosted

calculate_trade_setup(df) ==
    IF df.rows = 0
    THEN \* df['close'].iloc[-1] raises IndexError
         trade_setup_default("IndexError")
    ELSE LET current_price == df.close
             entry == IF ~isna(df.ema_20) THEN df.ema_20.v ELSE current_price
             sell_stop == stop_loss(current_price, df.sma_200)
             target_safe == base_target(current_price, df.sma_50)
             target_aggro == current_price * 1100
             \* atr_ratio = (target_aggro - current_price) / atr > 5
             volatility_supported ==
                 ~(~isna(df.atr) /\ target_aggro - current_price * 1000 > 5 * df.atr.v * 1000)
             uptrend == ~isna(df.sma_200) /\ current_price > df.sma_200.v
             prob_safe == IF uptrend THEN Min(85, 75 + 10) ELSE 75
             prob_aggro == aggro_probability(uptrend, volatility_supported)
         IN  [buy_min |-> entry * 980, buy_max |-> entry * 1020,
              sell_stop |-> sell_stop,
              target_safe |-> target_safe,
              target_safe_pct |->
                  round_half_even(target_safe - current_price * 1000, current_price),
              target_aggro |-> target_aggro,
              target_aggro_pct |->
                  round_half_even(target_aggro - current_price * 1000, current_price),
              prob_safe |-> prob_safe, prob_aggro |-> prob_aggro,
              volatility_supported |-> volatility_supported,
              recommended |-> "safe"]

-----------------------------------------------------------------------------
(* calculate_score: the result it builds once the three scorers returned *)

breakdown_of(tech, regime, rel, rel_score) ==
    [technicals |-> tech.score,
     market_regime |-> regime.score,
     relative_strength |-> rel_score,
     details |-> [technicals |-> tech.details,
                  market_regime |-> regime.details,
                  relative_strength |-> rel.details]]

\* `if kill_switch: return {...}`
kill_switch_result(tech, regime, rel, stock) ==
    [ticker |-> "TICKER",
     score |-> 0,
     verdict |-> get_verdict(0, TRUE),
     reason |-> "RELATIVE WEAKNESS KILL SWITCH",
     breakdown |-> breakdown_of(tech, regime, rel, 0),
     current_price |-> stock.close]

\* final_score = tech_result['score'] + regime_result['score'] + rel_score
final_score_of(tech, regime, rel) == tech.score + regime.score + rel.score

scored_result(tech, regime, rel, stock) ==
    LET final_score == final_score_of(tech, regime, rel)
    IN  [ticker |-> "TICKER",
         score |-> final_score,
         verdict |-> get_verdict(final_score, FALSE),
         breakdown |-> breakdown_of(tech, regime, rel, rel.score),
         current_price |-> stock.close,
         trade_setup |-> calculate_trade_setup(stock)]

\* The kill switch check of calculate_score
score_result(tech, regime, rel, stock) ==
    IF rel.kill_switch
    THEN kill_switch_result(tech, regime, rel, stock)
    ELSE scored_result(tech, regime, rel, stock)

\* `except Exception as e: return {'error': ...}`
error_result == [error |-> "Score calculation failed"]

-----------------------------------------------------------------------------
(* The series the bar provider can return *)

\* Prices of the scorer checks lie within PriceSpread of 100
PriceSpread == 12
\* The volatility index of the regime checks lies in 10..MaxVix
MaxVix == 35

BaseColumns == {"open", "high", "low", "close", "volume"}

Frame(rows, close, close6, sma_200, ema_20, rsi, sma_50, atr) ==
    [rows |-> rows, close |-> close, close6 |-> close6,
     sma_200 |-> sma_200, ema_20 |-> ema_20, rsi |-> rsi,
     sma_50 |-> sma_50, atr |-> atr, cols |-> BaseColumns]

\* The window of each indicator (the length= of its pandas_ta call)
Window == [sma_200 |-> 200, ema_20 |-> 20, rsi |-> 14, sma_50 |-> 50, atr |-> 14]

\* What the indicator library can leave in the last row of an indicator
\* column: a number needs a full window of bars; None is what a series
\* shorter than the window gives; NaN comes from a NaN bar (or, for a short
\* series, from a library version that pads instead of returning nothing)
Coherent(f) ==
    \A ind \in DOMAIN Window :
        /\ f[ind].k = "num" => f.rows >= Window[ind]
        /\ f[ind].k = "None" => f.rows < Window[ind]

\* close[-6] exists in a frame of six bars or more
Close6(rows, close6) == IF rows >= 6 THEN close6 ELSE 0

\* An indicator the scorers never compute on a frame: never read
Unread(rows, ind) == IF rows >= Window[ind] THEN NaN ELSE None

\* A frame with no bar: only a direct call of a scorer can be given one,
\* fetch_bars_rest raises instead of returning it
EmptyFrame == Frame(0, 0, 0, None, None, None, None, None)

\* Series of the ticker for calculate_score
StockFrames ==
    { f \in { Frame(rows, close, Close6(rows, 100), sma_200, ema_20, rsi, sma_50, atr) :
                rows \in {1, 6, 50, 250},
                close \in {95, 100, 105},
                sma_200 \in {Num(90), Num(110), NaN, None},
                ema_20 \in {Num(100), NaN, None},
                rsi \in {Num(40), Num(60), Num(75), NaN, None},
                sma_50 \in {Num(102), None},
                atr \in {Num(1), Num(3), None} } : Coherent(f) }

\* Series of the market proxy for calculate_score
SpyFrames ==
    { f \in { Frame(rows, close, Close6(rows, 20),
                    Unread(rows, "sma_200"), Unread(rows, "ema_20"),
                    Unread(rows, "rsi"), sma_50, Unread(rows, "atr")) :
                rows \in {1, 6, 50},
                close \in {19, 20, 21},
                sma_50 \in {Num(18), Num(20), NaN, None} } : Coherent(f) }

\* Series of the volatility index
VixFrame(close) == [rows |-> 1, close |-> close, cols |-> BaseColumns]
VixFrames == { VixFrame(close) : close \in {15, 25, 35} }

-----------------------------------------------------------------------------
(* fetch_bars_rest: what the REST call answered, and what the method makes *)
(* of it                                                                   *)

FailedResponses ==
    { [kind |-> "api_error"],      \* get_stock_bars raised
      [kind |-> "no_data"],        \* `not bars or not bars.data`
      [kind |-> "no_symbol"],      \* `symbol not in bars.data`
      [kind |-> "empty"] }         \* `len(bar_list) == 0`

Responses(frames) == FailedResponses \cup { [kind |-> "bars", df |-> f] : f \in frames }

\* Variant: an empty bar list comes back as an empty frame instead of raising
fetch_bars_rest_keeps_empty(resp) ==
    IF resp.kind = "bars" THEN [ok |-> TRUE, df |-> resp.df]
    ELSE IF resp.kind = "empty" THEN [ok |-> TRUE, df |-> EmptyFrame]
    ELSE [ok |-> FALSE, df |-> NoFrame]

\* Every answer but a non-empty bar list raises
fetch_bars_rest(resp) ==
    IF resp.kind = "bars"
    THEN [ok |-> TRUE, df |-> resp.df]
    ELSE [ok |-> FALSE, df |-> NoFrame]

-----------------------------------------------------------------------------
(* calculate_score, statement by statement *)

Init ==
    /\ pc = "fetch_stock"
    /\ stock_df = NoFrame
    /\ spy_df = NoFrame
    /\ vix_df = NoFrame
    /\ tech_result = NoResult
    /\ regime_result = NoResult
    /\ rel_result = NoResult
    /\ result = NoResult
    /\ ai_result = NoResult
    /\ response = NoResult
    /\ licenses = <<>>
    /\ reqs = <<>>

\* stock_df = self.fetch_bars_rest(ticker, ...)
FetchStock ==
    /\ pc = "fetch_stock"
    /\ \E resp \in Responses(StockFrames) :
          LET got == fetch_bars_rest(resp)
          IN  IF got.ok
              THEN stock_df' = got.df /\ pc' = "fetch_spy" /\ UNCHANGED result
              ELSE result' = error_result /\ pc' = "done" /\ UNCHANGED stock_df
    /\ UNCHANGED <<spy_df, vix_df, tech_result, regime_result, rel_result,
                   ai_result, response,
                   licenses, reqs>>

\* spy_df = self.fetch_bars_rest('SPY', ...)
FetchSpy ==
    /\ pc = "fetch_spy"
    /\ \E resp \in Responses(SpyFrames) :
          LET got == fetch_bars_rest(resp)
          IN  IF got.ok
              THEN spy_df' = got.df /\ pc' = "fetch_vix" /\ UNCHANGED result
              ELSE result' = error_result /\ pc' = "done" /\ UNCHANGED spy_df
    /\ UNCHANGED <<stock_df, vix_df, tech_result, regime_result, rel_result,
                   ai_result, response,
                   licenses, reqs>>

\* try: vix_df = self.fetch_bars_rest('VIX', ...)  except: vix_df = None
FetchVix ==
    /\ pc = "fetch_vix"
    /\ \E resp \in Responses(VixFrames) :
          LET got == fetch_bars_rest(resp)
          IN  vix_df' = IF got.ok THEN got.df ELSE NoFrame
    /\ pc' = "technicals"
    /\ UNCHANGED <<stock_df, spy_df, tech_result, regime_result, rel_result, result,
                   ai_result, response,
                   licenses, reqs>>

\* tech_result = self.calculate_technicals(stock_df)
Technicals ==
    /\ pc = "technicals"
    /\ tech_result' = calculate_technicals(stock_df)
    /\ stock_df' = technicals_columns(stock_df)
    /\ pc' = "regime"
    /\ UNCHANGED <<spy_df, vix_df, regime_result, rel_result, result,
                   ai_result, response,
                   licenses, reqs>>

\* regime_result = self.calculate_market_regime(spy_df, vix_df)
Regime ==
    /\ pc = "regime"
    /\ regime_result' = calculate_market_regime(spy_df, vix_df)
    /\ spy_df' = regime_columns(spy_df)
    /\ pc' = "relative_strength"
    /\ UNCHANGED <<stock_df, vix_df, tech_result, rel_result, result,
                   ai_result, response,
                   licenses, reqs>>

\* rel_score, rel_details, kill_switch = self.calculate_relative_strength(stock_df, spy_df)
RelativeStrength ==
    /\ pc = "relative_strength"
    /\ rel_result' = calculate_relative_strength(stock_df, spy_df)
    /\ pc' = "aggregate"
    /\ UNCHANGED <<stock_df, spy_df, vix_df, tech_result, regime_result, result,
                   ai_result, response,
                   licenses, reqs>>

\* The kill switch check, the final score, the verdict and the trade setup
Aggregate ==
    /\ pc = "aggregate"
    /\ result' = score_result(tech_result, regime_result, rel_result, stock_df)
    /\ stock_df' = IF rel_result.kill_switch
                   THEN stock_df
                   ELSE trade_setup_columns(stock_df)
    /\ pc' = "done"
    /\ UNCHANGED <<spy_df, vix_df, tech_result, regime_result, rel_result,
                   ai_result, response,
                   licenses, reqs>>

Next ==
    \/ FetchStock
    \/ FetchSpy
    \/ FetchVix
    \/ Technicals
    \/ Regime
    \/ RelativeStrength
    \/ Aggregate

Spec == Init /\ [][Next]_vars

-----------------------------------------------------------------------------
(* Each scorer called on its own, over a wider range of series *)

ScorerPrices == (100 - PriceSpread)..(100 + PriceSpread)

RsiValues == {0, 29, 30, 31, 45, 49, 50, 51, 69, 70, 71, 75, 100}

TechFrames ==
    { f \in { Frame(rows, close, 100, sma_200, ema_20, rsi,
                    Unread(rows, "sma_50"), Unread(rows, "atr")) :
                rows \in {6, 50, 250},
                close \in ScorerPrices,
                sma_200 \in {Num(80), Num(100), Num(120)} \cup Undefined,
                ema_20 \in {Num(100), Num(110)} \cup Undefined,
                rsi \in {Num(r) : r \in RsiValues} \cup Undefined } : Coherent(f) }
    \cup {EmptyFrame}

InitTech ==
    /\ pc = "technicals"
    /\ stock_df \in TechFrames
    /\ spy_df = NoFrame
    /\ vix_df = NoFrame
    /\ tech_result = NoResult
    /\ regime_result = NoResult
    /\ rel_result = NoResult
    /\ result = NoResult
    /\ ai_result = NoResult
    /\ response = NoResult
    /\ licenses = <<>>
    /\ reqs = <<>>

SpecTech == InitTech /\ [][Technicals]_vars

RegimeSpyFrames ==
    { f \in { Frame(rows, close, 100,
                    Unread(rows, "sma_200"), Unread(rows, "ema_20"),
                    Unread(rows, "rsi"), sma_50, Unread(rows, "atr")) :
                rows \in {6, 50},
                close \in ScorerPrices,
                sma_50 \in {Num(95), Num(100), Num(105)} \cup Undefined } : Coherent(f) }
    \cup {EmptyFrame}

RegimeVixFrames ==
    { VixFrame(close) : close \in 10..MaxVix }
    \cup {NoFrame, [rows |-> 0, close |-> 0, cols |-> BaseColumns]}

InitRegime ==
    /\ pc = "regime"
    /\ stock_df = NoFrame
    /\ spy_df \in RegimeSpyFrames
    /\ vix_df \in RegimeVixFrames
    /\ tech_result = NoResult
    /\ regime_result = NoResult
    /\ rel_result = NoResult
    /\ result = NoResult
    /\ ai_result = NoResult
    /\ response = NoResult
    /\ licenses = <<>>
    /\ reqs = <<>>

SpecRegime == InitRegime /\ [][Regime]_vars

RelFrames(closes, close6) ==
    { Frame(rows, close, Close6(rows, close6),
            Unread(rows, "sma_200"), Unread(rows, "ema_20"),
            Unread(rows, "rsi"), Unread(rows, "sma_50"), Unread(rows, "atr")) :
        rows \in {1, 5, 6, 7}, close \in closes }

InitRel ==
    /\ pc = "relative_strength"
    /\ stock_df \in RelFrames(ScorerPrices, 100)
    /\ spy_df \in RelFrames(17..23, 20) \cup RelFrames({99, 100, 101}, 100)
    /\ vix_df = NoFrame
    /\ tech_result = NoResult
    /\ regime_result = NoResult
    /\ rel_result = NoResult
    /\ result = NoResult
    /\ ai_result = NoResult
    /\ response = NoResult
    /\ licenses = <<>>
    /\ reqs = <<>>

SpecRel == InitRel /\ [][RelativeStrength]_vars

-----------------------------------------------------------------------------
(* The methods of the engine called by a caller of its own: each one takes *)
(* the series it is given, empty ones included, and returns to the caller  *)

\* Series of a price quoted ten times finer, whose 50 SMA lies a fraction of
\* a percent above the last close
FineFrames ==
    { Frame(250, 1000, 1000, sma_200, Num(1000), Unread(250, "rsi"), sma_50, Num(20)) :
        sma_200 \in {Num(900), Num(1100), NaN},
        sma_50 \in {Num(1003), Num(1005), Num(1006), Num(1039), Num(1040)} }

SetupFrames ==
    { f \in { Frame(rows, close, Close6(rows, 100), sma_200, ema_20,
                    Unread(rows, "rsi"), sma_50, atr) :
                rows \in {1, 20, 50, 250},
                close \in ScorerPrices,
                sma_200 \in {Num(80), Num(100), Num(101), Num(110), Num(120)} \cup Undefined,
                ema_20 \in {Num(80), Num(100), Num(125)} \cup Undefined,
                sma_50 \in {Num(99), Num(100), Num(101), Num(104), Num(120)} \cup Undefined,
                atr \in {Num(1), Num(2), Num(3)} \cup Undefined } : Coherent(f) }
    \cup {EmptyFrame}
    \cup FineFrames

\* engine.calculate_technicals(df)
CallTechnicals ==
    /\ pc = "call_technicals"
    /\ tech_result' = calculate_technicals(stock_df)
    /\ stock_df' = technicals_columns(stock_df)
    /\ pc' = "returned"
    /\ UNCHANGED <<spy_df, vix_df, regime_result, rel_result, result,
                   ai_result, response,
                   licenses, reqs>>

\* engine.calculate_market_regime(spy_df, vix_df)
CallRegime ==
    /\ pc = "call_regime"
    /\ regime_result' = calculate_market_regime(spy_df, vix_df)
    /\ spy_df' = regime_columns(spy_df)
    /\ pc' = "returned"
    /\ UNCHANGED <<stock_df, vix_df, tech_result, rel_result, result,
                   ai_result, response,
                   licenses, reqs>>

\* engine.calculate_relative_strength(stock_df, spy_df)
CallRelativeStrength ==
    /\ pc = "call_relative_strength"
    /\ rel_result' = calculate_relative_strength(stock_df, spy_df)
    /\ pc' = "returned"
    /\ UNCHANGED <<stock_df, spy_df, vix_df, tech_result, regime_result, result,
                   ai_result, response,
                   licenses, reqs>>

\* engine.calculate_trade_setup(df)
CallTradeSetup ==
    /\ pc = "call_trade_setup"
    /\ result' = calculate_trade_setup(stock_df)
    /\ stock_df' = trade_setup_columns(stock_df)
    /\ pc' = "returned"
    /\ UNCHANGED <<spy_df, vix_df, tech_result, regime_result, rel_result,
                   ai_result, response,
                   licenses, reqs>>

InitSetup ==
    /\ pc = "call_trade_setup"
    /\ stock_df \in SetupFrames
    /\ spy_df = NoFrame
    /\ vix_df = NoFrame
    /\ tech_result = NoResult
    /\ regime_result = NoResult
    /\ rel_result = NoResult
    /\ result = NoResult
    /\ ai_result = NoResult
    /\ response = NoResult
    /\ licenses = <<>>
    /\ reqs = <<>>

SpecSetup == InitSetup /\ [][CallTradeSetup]_vars

InitCall(method, stocks, spys, vixes) ==
    /\ pc = method
    /\ stock_df \in stocks
    /\ spy_df \in spys
    /\ vix_df \in vixes
    /\ tech_result = NoResult
    /\ regime_result = NoResult
    /\ rel_result = NoResult
    /\ result = NoResult
    /\ ai_result = NoResult
    /\ response = NoResult
    /\ licenses = <<>>
    /\ reqs = <<>>

\* Every entry point of the engine: calculate_score, or one scorer or the
\* trade setup calculator on its own
InitEngine ==
    \/ Init
    \/ InitCall("call_technicals", TechFrames, {NoFrame}, {NoFrame})
    \/ InitCall("call_regime", {NoFrame}, RegimeSpyFrames, RegimeVixFrames)
    \/ InitCall("call_relative_strength", RelFrames(ScorerPrices, 100) \cup {EmptyFrame},
                RelFrames(17..23, 20) \cup {EmptyFrame}, {NoFrame})
    \/ InitSetup

NextEngine ==
    \/ Next
    \/ CallTechnicals
    \/ CallRegime
    \/ CallRelativeStrength
    \/ CallTradeSetup

SpecEngine == InitEngine /\ [][NextEngine]_vars

-----------------------------------------------------------------------------
(* analyze_ticker (src/app_new.py): the /api/analyze handler around        *)
(* calculate_score, with the AI analysis of src/market_analyst.py.  The    *)
(* news list and the timestamp of the response are left out: nothing in    *)
(* the handler reads them back.                                            *)

\* The sentiment the AI answer carries lies within MaxRawSentiment of 0
MaxRawSentiment == 11

\* sentiment_score = max(-10, min(10, int(sentiment_score)))
clamp_sentiment(raw) == Max(-10, Min(10, raw))

\* The `except` of analyze_context: a fallback chosen by the engine score
fallback_analysis(score) ==
    IF score >= 70 THEN [sentiment_score |-> 5, analysis |-> "Strong technical setup"]
    ELSE IF score >= 50 THEN [sentiment_score |-> 0, analysis |-> "Mixed signals"]
    ELSE [sentiment_score |-> -3, analysis |-> "Not favorable"]

\* What the completion API gave analyze_context
AiAnswers ==
    {[kind |-> "failed"]}      \* request error, bad JSON, non-numeric sentiment
    \cup { [kind |-> "json", sentiment_score |-> r] :
              r \in (-MaxRawSentiment)..MaxRawSentiment }

analyze_context(score, answer) ==
    IF answer.kind = "json"
    THEN [sentiment_score |-> clamp_sentiment(answer.sentiment_score),
          analysis |-> "AI analysis"]
    ELSE fallback_analysis(score)

\* `else: ai_result = {...}` when use_ai is false or there is no analyst
ai_disabled == [sentiment_score |-> 0, analysis |-> "AI analysis disabled"]

\* Variant: halves are rounded up
ai_points_half_up(ai_sentiment_score) ==
    Max(0, Min(10, (ai_sentiment_score + 10 + 1) \div 2))

\* ai_points = ((s + 10) / 20) * 10; max(0, min(10, int(round(ai_points))))
ai_points(ai_sentiment_score) ==
    Max(0, Min(10, round_half_even((ai_sentiment_score + 10) * 10, 20)))

\* final_score = min(100, technical_result['score'] + ai_points)
adjusted_score(score, points) == Min(100, score + points)

\* The verdict analyze_ticker derives from the adjusted score
response_verdict(final_score, kill_switch) ==
    IF kill_switch THEN "AVOID (Rel. Weakness)"
    ELSE IF final_score >= 80 THEN "STRONG BUY"
    ELSE IF final_score >= 60 THEN "BUY"
    ELSE IF final_score >= 40 THEN "HOLD"
    ELSE IF final_score >= 20 THEN "AVOID"
    ELSE "STRONG SELL"

\* technical_result['breakdown'] after the two ai_sentiment assignments
breakdown_with_ai(breakdown, ai, points) ==
    [ai_sentiment |-> points,
     details |-> [ai_sentiment |-> [ai_score |-> ai.sentiment_score,
                                    points |-> points,
                                    analysis |-> ai.analysis]]
                 @@ breakdown.details]
    @@ breakdown

\* The body of the 200 response
response_body(technical_result, ai) ==
    LET points == ai_points(ai.sentiment_score)
        final_score == adjusted_score(technical_result.score, points)
        kill_switch == "reason" \in DOMAIN technical_result
        body == [ticker |-> technical_result.ticker,
                 score |-> final_score,
                 verdict |-> response_verdict(final_score, kill_switch),
                 breakdown |-> breakdown_with_ai(technical_result.breakdown, ai, points),
                 ai_summary |-> ai.analysis,
                 current_price |-> technical_result.current_price,
                 trade_setup |-> IF "trade_setup" \in DOMAIN technical_result
                                 THEN technical_result.trade_setup
                                 ELSE <<>>]
    IN  IF kill_switch
        THEN [warning |-> technical_result.reason] @@ body
        ELSE body

http(status, body) == [status |-> status, body |-> body]

Requests ==
    { [kind |-> "no_json"],            \* request.get_json() gives None
      [kind |-> "invalid_ticker"],     \* validate_ticker refuses it
      [kind |-> "no_scorer"],          \* the engine failed to initialize
      [kind |-> "valid"] }

InitAnalyze ==
    /\ pc = "analyze"
    /\ stock_df = NoFrame
    /\ spy_df = NoFrame
    /\ vix_df = NoFrame
    /\ tech_result = NoResult
    /\ regime_result = NoResult
    /\ rel_result = NoResult
    /\ result = NoResult
    /\ ai_result = NoResult
    /\ response = NoResult
    /\ licenses = <<>>
    /\ reqs = <<>>

\* The request is read and checked; a valid one goes on to calculate_score
ReceiveRequest ==
    /\ pc = "analyze"
    /\ \E req \in Requests :
          IF req.kind = "valid"
          THEN pc' = "fetch_stock" /\ UNCHANGED response
          ELSE /\ pc' = "responded"
               /\ response' =
                     IF req.kind = "invalid_ticker"
                     THEN http(400, [error |-> "Invalid ticker symbol"])
                     ELSE IF req.kind = "no_scorer"
                     THEN http(500, [error |-> "Swing Score Engine not available"])
                     ELSE http(500, [error |-> "Could not analyze ticker"])
    /\ UNCHANGED <<stock_df, spy_df, vix_df, tech_result, regime_result, rel_result,
                   result, ai_result,
                   licenses, reqs>>

\* `if 'error' in technical_result: return jsonify(technical_result), 500`
EngineError ==
    /\ pc = "done"
    /\ "error" \in DOMAIN result
    /\ response' = http(500, result)
    /\ pc' = "responded"
    /\ UNCHANGED <<stock_df, spy_df, vix_df, tech_result, regime_result, rel_result,
                   result, ai_result,
                   licenses, reqs>>

\* STEP 2: the AI analysis, when asked for and available.  analyze_context
\* catches every exception of its own body and its handler only compares
\* the integer score, so the `except` around the call is never entered.
AiAnalysis ==
    /\ pc = "done"
    /\ "error" \notin DOMAIN result
    /\ \E use_ai \in BOOLEAN, market_analyst \in BOOLEAN :
          IF use_ai /\ market_analyst
          THEN \E answer \in AiAnswers :
                  ai_result' = analyze_context(result.score, answer)
          ELSE ai_result' = ai_disabled
    /\ pc' = "respond"
    /\ UNCHANGED <<stock_df, spy_df, vix_df, tech_result, regime_result, rel_result,
                   result, response,
                   licenses, reqs>>

\* The AI adjustment, the verdict and the 200 response; the adjustment is
\* written into the breakdown of the engine's own result
Respond ==
    /\ pc = "respond"
    /\ response' = http(200, response_body(result, ai_result))
    /\ result' = [result EXCEPT !.breakdown =
                      breakdown_with_ai(@, ai_result, ai_points(ai_result.sentiment_score))]
    /\ pc' = "responded"
    /\ UNCHANGED <<stock_df, spy_df, vix_df, tech_result, regime_result, rel_result,
                   ai_result,
                   licenses, reqs>>

NextAnalyze ==
    \/ ReceiveRequest
    \/ Next
    \/ EngineError
    \/ AiAnalysis
    \/ Respond

SpecAnalyze == InitAnalyze /\ [][NextAnalyze]_vars

-----------------------------------------------------------------------------
(* Licenses: src/database.py, the require_license decorator of src/auth.py, *)
(* the Stripe handlers of src/stripe_integration.py and the webhook of      *)
(* src/app_new.py.                                                          *)
(*                                                                          *)
(* The licenses table is the sequence of its rows in order of creation; a   *)
(* license key is the position of its row (generate_license_key returns a   *)
(* key no row has yet), 0 is a request without a key, and a number beyond   *)
(* the table is a key no row has.  A timestamp is the number of the request *)
(* that wrote it, 0 where the column is NULL.  Every request works on its   *)
(* own database session, so the row a request has loaded is its own copy    *)
(* and the statements of different requests interleave.                     *)

MaxLicenses == 2
MaxRequests == 2

Emails == {"ann@example.com", "bob@example.com"}

\* License(key=..., email=..., status=..., tier=...) with the column defaults
License(email, status) ==
    [email |-> email, status |-> status, request_count |-> 0, last_used |-> 0]

\* License.is_valid
is_valid(license) == license.status = "active"

\* f"License is {license.status}"
license_is(status) ==
    IF status = "revoked" THEN "License is revoked" ELSE "License is inactive"

\* create_license: a new row under a key generate_license_key found unused
create_license(table, email, status) == Append(table, License(email, status))

\* revoke_license
revoke_license(table, key) ==
    IF key \in DOMAIN table THEN [table EXCEPT ![key].status = "revoked"] ELSE table

\* validate_license with the status check left out
validate_license_any_status(table, key) ==
    IF key = 0
    THEN [ok |-> FALSE, message |-> "License key is required"]
    ELSE IF key \notin DOMAIN table
    THEN [ok |-> FALSE, message |-> "License key not found"]
    ELSE [ok |-> TRUE, message |-> "", license |-> table[key]]

\* validate_license up to its call of record_usage: the message of the failure,
\* or the row the query loaded
validate_license(table, key) ==
    IF key = 0
    THEN [ok |-> FALSE, message |-> "License key is required"]
    ELSE IF key \notin DOMAIN table
    THEN [ok |-> FALSE, message |-> "License key not found"]
    ELSE IF ~is_valid(table[key])
    THEN [ok |-> FALSE, message |-> license_is(table[key].status)]
    ELSE [ok |-> TRUE, message |-> "", license |-> table[key]]

\* record_usage writing back every column of the loaded row
record_usage_whole_row(table, key, loaded, now) ==
    [table EXCEPT ![key] = [loaded EXCEPT !.last_used = now, !.request_count = @ + 1]]

\* License.record_usage: `self.request_count += 1` adds one to the count the
\* session loaded, and the commit writes the two changed columns
record_usage(table, key, loaded, now) ==
    [table EXCEPT ![key].last_used = now,
                  ![key].request_count = loaded.request_count + 1]

\* What Stripe, or anybody else, posts to /webhook: how the
\* signature check goes, and the event the payload holds
Checks == {"ok", "no_secret", "no_signature", "invalid_payload", "invalid_signature"}

Events ==
    {[type |-> t, email |-> e] :
        t \in {"checkout.session.completed", "customer.subscription.deleted"},
        e \in Emails \cup {""}}
    \cup {[type |-> "invoice.payment_failed", email |-> ""]}

Deliveries ==
    {[check |-> "ok", event |-> ev] : ev \in Events}
    \cup {[check |-> c, event |-> ev] :
            c \in Checks \ {"ok"},
            ev \in {e \in Events : e.email = "ann@example.com"}}

\* verify_webhook_signature accepting a payload whose signature does not match
verify_webhook_signature_unchecked(delivery) ==
    IF delivery.check \in {"ok", "invalid_signature"} THEN delivery.event ELSE NoResult

\* verify_webhook_signature: the event, or None
verify_webhook_signature(delivery) ==
    IF delivery.check = "ok" THEN delivery.event ELSE NoResult

\* handle_checkout_completed: the table afterwards and what is returned
handle_checkout_completed(table, session) ==
    IF session.email = ""
    THEN [table |-> table, result |-> "No customer email"]
    ELSE [table |-> create_license(table, session.email, "active"),
          result |-> "license_key"]

\* handle_subscription_deleted: the outcomes, one for each row that
\* filter_by(email=..., status='active').first() may return (the query has no
\* ORDER BY).  A customer that cannot be retrieved is a customer without email.
handle_subscription_deleted(table, subscription) ==
    IF subscription.email = ""
    THEN {[table |-> table, result |-> "No customer email"]}
    ELSE LET active == {k \in DOMAIN table :
                           /\ table[k].email = subscription.email
                           /\ table[k].status = "active"}
         IN  IF active = {}
             THEN {[table |-> table, result |-> "No active license found"]}
             ELSE {[table |-> [table EXCEPT ![k].status = "revoked"],
                    result |-> "revoked"] : k \in active}

\* A request: where it stands, what it carries, the row its session loaded,
\* and its response
Request(at, kind, key, loaded, delivery, status, message) ==
    [pc |-> at, kind |-> kind, key |-> key, loaded |-> loaded,
     delivery |-> delivery, status |-> status, message |-> message]

NoRequest == Request("idle", "none", 0, NoResult, NoResult, 0, "")

engine_vars == <<pc, stock_df, spy_df, vix_df, tech_result, regime_result, rel_result,
                 result, ai_result, response>>

InitLicense ==
    /\ pc = "idle"
    /\ stock_df = NoFrame
    /\ spy_df = NoFrame
    /\ vix_df = NoFrame
    /\ tech_result = NoResult
    /\ regime_result = NoResult
    /\ rel_result = NoResult
    /\ result = NoResult
    /\ ai_result = NoResult
    /\ response = NoResult
    /\ licenses = <<>>
    /\ reqs = [r \in 1..MaxRequests |-> NoRequest]

\* The requests are numbered in the order they arrive
Arrives(r) ==
    /\ reqs[r].pc = "idle"
    /\ r > 1 => reqs[r - 1].pc # "idle"

\* A request for a protected endpoint arrives:
\* license_key = request.headers.get('X-License-Key')
ApiArrive(r) ==
    /\ Arrives(r)
    /\ \E key \in 0..MaxLicenses :
          reqs' = [reqs EXCEPT ![r] =
                      Request("validate", "api", key, NoResult, NoResult, 0, "")]
    /\ UNCHANGED licenses
    /\ UNCHANGED engine_vars

\* require_license: is_valid, result = validate_license(license_key), up to
\* the query; a failure is answered 401 with the message
Validate(r) ==
    /\ reqs[r].pc = "validate"
    /\ LET v == validate_license(licenses, reqs[r].key)
       IN  IF v.ok
           THEN reqs' = [reqs EXCEPT ![r].pc = "record_usage", ![r].loaded = v.license]
           ELSE reqs' = [reqs EXCEPT ![r].pc = "done", ![r].status = 401,
                                     ![r].message = v.message]
    /\ UNCHANGED licenses
    /\ UNCHANGED engine_vars

\* license.record_usage() and the return of (True, license)
RecordUsage(r) ==
    /\ reqs[r].pc = "record_usage"
    /\ licenses' = record_usage(licenses, reqs[r].key, reqs[r].loaded, r)
    /\ reqs' = [reqs EXCEPT ![r].pc = "handler"]
    /\ UNCHANGED engine_vars

\* return f(*args, **kwargs): the protected handler runs and answers
Handler(r) ==
    /\ reqs[r].pc = "handler"
    /\ \E status \in {200, 400, 500} :
          reqs' = [reqs EXCEPT ![r].pc = "done", ![r].status = status,
                               ![r].message = "handled"]
    /\ UNCHANGED licenses
    /\ UNCHANGED engine_vars

\* A POST to /webhook arrives: request.data and the Stripe-Signature header
WebhookArrive(r) ==
    /\ Arrives(r)
    /\ \E delivery \in Deliveries :
          reqs' = [reqs EXCEPT ![r] =
                      Request("webhook", "webhook", 0, NoResult, delivery, 0, "")]
    /\ UNCHANGED licenses
    /\ UNCHANGED engine_vars

\* stripe_webhook
StripeWebhook(r) ==
    /\ reqs[r].pc = "webhook"
    /\ LET event == verify_webhook_signature(reqs[r].delivery)
           answer(status, message) ==
               [reqs EXCEPT ![r].pc = "done", ![r].status = status,
                            ![r].message = message]
       IN  IF event = NoResult
           THEN /\ reqs' = answer(400, "Invalid signature")
                /\ UNCHANGED licenses
           ELSE IF event.type = "checkout.session.completed"
           THEN /\ event.email # "" => Len(licenses) < MaxLicenses
                /\ LET out == handle_checkout_completed(licenses, event)
                   IN  /\ licenses' = out.table
                       /\ reqs' = answer(200, out.result)
           ELSE IF event.type = "customer.subscription.deleted"
           THEN \E out \in handle_subscription_deleted(licenses, event) :
                   /\ licenses' = out.table
                   /\ reqs' = answer(200, out.result)
           ELSE /\ reqs' = answer(200, "success")
                /\ UNCHANGED licenses
    /\ UNCHANGED engine_vars

\* manage_keys.py create: create_license(email, tier)
CmdCreate ==
    /\ Len(licenses) < MaxLicenses
    /\ \E email \in Emails : licenses' = create_license(licenses, email, "active")
    /\ UNCHANGED reqs
    /\ UNCHANGED engine_vars

\* manage_keys.py revoke: revoke_license(key) of a license not yet revoked
CmdRevoke ==
    /\ \E key \in DOMAIN licenses :
          /\ licenses[key].status # "revoked"
          /\ licenses' = revoke_license(licenses, key)
    /\ UNCHANGED reqs
    /\ UNCHANGED engine_vars

NextLicense ==
    \/ \E r \in 1..MaxRequests : ApiArrive(r)
    \/ \E r \in 1..MaxRequests : Validate(r)
    \/ \E r \in 1..MaxRequests : RecordUsage(r)
    \/ \E r \in 1..MaxRequests : Handler(r)
    \/ \E r \in 1..MaxRequests : WebhookArrive(r)
    \/ \E r \in 1..MaxRequests : StripeWebhook(r)
    \/ CmdCreate
    \/ CmdRevoke

SpecLicense == InitLicense /\ [][NextLicense]_vars

-----------------------------------------------------------------------------
(* Properties of calculate_score *)

Returned == pc = "done"
IsError(r) == "error" \in DOMAIN r
Complete == Returned /\ ~IsError(result)

\* The ticker's 5-bar return is negative and the market's is positive
\* (close[-6] > 0, so the sign of a return is that of close[-1] - close[-6])
StockFell == stock_df.rows >= 6 /\ stock_df.close < stock_df.close6
MarketRose == spy_df.rows >= 6 /\ spy_df.close > spy_df.close6
KillCase == StockFell /\ MarketRose

\* C1: whenever the ticker's 5-bar return is < 0 and the market's is > 0,
\* calculate_score returns score 0, verdict "AVOID (Rel. Weakness)", a
\* 'reason', breakdown.relative_strength 0, the technicals and market_regime
\* sub-scores as computed and no 'trade_setup'; and a result carries
\* 'reason' only in that case.
C1_KillSwitchResult ==
    Returned =>
        /\ (Complete /\ KillCase) =>
              /\ result.score = 0
              /\ result.verdict = "AVOID (Rel. Weakness)"
              /\ "reason" \in DOMAIN result
              /\ result.breakdown.relative_strength = 0
              /\ result.breakdown.technicals = tech_result.score
              /\ result.breakdown.market_regime = regime_result.score
              /\ "trade_setup" \notin DOMAIN result
        /\ "reason" \in DOMAIN result => (Complete /\ KillCase)

C1_Witness ==
    /\ Complete /\ KillCase
    /\ "reason" \in DOMAIN result
    /\ result.breakdown.technicals > 0
    /\ result.breakdown.market_regime > 0

\* The fully aligned scenario: uptrend, RSI in the sweet spot, price at the
\* EMA20, VIX below 20, market above its SMA50, stock return above the market's
FullyAligned ==
    /\ ~isna(stock_df.sma_200) /\ stock_df.close > stock_df.sma_200.v
    /\ ~isna(stock_df.rsi) /\ stock_df.rsi.v >= 30 /\ stock_df.rsi.v < 50
    /\ ~isna(stock_df.ema_20) /\ stock_df.close = stock_df.ema_20.v
    /\ vix_df # NoFrame /\ vix_df.close < 20
    /\ ~isna(spy_df.sma_50) /\ spy_df.close > spy_df.sma_50.v
    /\ stock_df.rows >= 6 /\ spy_df.rows >= 6
    /\ (stock_df.close - stock_df.close6) * spy_df.close6
          > (spy_df.close - spy_df.close6) * stock_df.close6

\* C2: on every path without the kill switch the final score
\* technicals + market_regime + relative_strength lies in 0..100, and the
\* fully aligned scenario gives exactly 100 with verdict "STRONG BUY".
C2_FinalScoreWithin100 ==
    (Complete /\ "reason" \notin DOMAIN result) =>
        /\ result.score = result.breakdown.technicals
                          + result.breakdown.market_regime
                          + result.breakdown.relative_strength
        /\ result.score >= 0 /\ result.score <= 100
        /\ FullyAligned => (result.score = 100 /\ result.verdict = "STRONG BUY")

\* C8: when the volatility series could not be fetched, calculate_score
\* still returns a complete result, the volatility factor adds 0 points, the
\* regime details carry the 'Not available' flag and the regime score is the
\* market trend points alone.
C8_VixAbsentIsNeutral ==
    (Returned /\ stock_df # NoFrame /\ spy_df # NoFrame /\ vix_df = NoFrame) =>
        /\ ~IsError(result)
        /\ "vix" \in DOMAIN result.breakdown.details.market_regime
        /\ result.breakdown.details.market_regime.vix = "Not available (assuming neutral)"
        /\ result.breakdown.market_regime =
              (IF ~isna(spy_df.sma_50) /\ spy_df.close > spy_df.sma_50.v THEN 15 ELSE 0)

\* C10: on every result without the kill switch the verdict follows from the
\* returned score alone: >= 80 "STRONG BUY", 60..79 "BUY", 40..59 "HOLD",
\* below 40 "AVOID".
C10_VerdictByScore ==
    (Complete /\ "reason" \notin DOMAIN result) =>
        result.verdict =
            (IF result.score >= 80 THEN "STRONG BUY"
             ELSE IF result.score >= 60 THEN "BUY"
             ELSE IF result.score >= 40 THEN "HOLD"
             ELSE "AVOID")

C10_Witness ==
    /\ Complete /\ "reason" \notin DOMAIN result
    /\ result.score = 80 /\ result.verdict = "STRONG BUY"

\* The fetch of the ticker series or of the market proxy series raised
FetchFailed == stock_df = NoFrame \/ spy_df = NoFrame
NoScorerRan ==
    tech_result = NoResult /\ regime_result = NoResult /\ rel_result = NoResult
ScoreResultKeys == {"ticker", "score", "verdict", "breakdown", "current_price"}

\* C11: calculate_score returns either a complete result or an object whose
\* only key is 'error'; when the fetch of the ticker series or of the market
\* proxy series fails the result is that single-key object, no scorer has
\* run and no score, verdict or breakdown is present; a complete result is
\* built from two fetched, non-empty series only.
C11_FetchFailureIsErrorObject ==
    Returned =>
        /\ (DOMAIN result = {"error"}) \/ (ScoreResultKeys \subseteq DOMAIN result
                                           /\ "error" \notin DOMAIN result)
        /\ FetchFailed =>
              /\ DOMAIN result = {"error"}
              /\ NoScorerRan
        /\ ~IsError(result) =>
              /\ ~FetchFailed
              /\ stock_df.rows > 0 /\ spy_df.rows > 0
              /\ ~NoScorerRan

\* The market proxy fetch failed after the ticker series was fetched
C11_Witness ==
    /\ Returned
    /\ stock_df # NoFrame /\ spy_df = NoFrame
    /\ DOMAIN result = {"error"}
    /\ NoScorerRan

\* A scorer returned with its failure recorded in its details
TechFailed == tech_result # NoResult /\ "error" \in DOMAIN tech_result.details
RegimeFailed == regime_result # NoResult /\ "error" \in DOMAIN regime_result.details
RelFailed == rel_result # NoResult /\ "error" \in DOMAIN rel_result.details
\* calculate_trade_setup, called on its own, returned
SetupReturned == pc = "returned" /\ result # NoResult

TradeSetupKeys ==
    {"buy_min", "buy_max", "sell_stop", "target_safe", "target_safe_pct",
     "target_aggro", "target_aggro_pct", "prob_safe", "prob_aggro",
     "volatility_supported", "recommended"}

\* C12: a failure inside a scorer or the trade setup calculator comes back
\* as a result, never as an exception: calculate_technicals returns score 0
\* with details.error; calculate_market_regime and
\* calculate_relative_strength return a score within 0..30 and 0..20 with
\* details.error (and kill_switch false); calculate_trade_setup returns the
\* zeroed default with every key plus 'error'; and calculate_score, once
\* both series are fetched, returns a complete result, not the error object.
C12_FactorErrorsStayLocal ==
    /\ (tech_result # NoResult /\ stock_df.rows = 0) => TechFailed
    /\ TechFailed => tech_result.score = 0
    /\ (regime_result # NoResult /\ spy_df.rows = 0) => RegimeFailed
    /\ RegimeFailed => regime_result.score \in 0..30
    /\ (rel_result # NoResult /\ (stock_df.rows < 6 \/ spy_df.rows < 6)) => RelFailed
    /\ RelFailed => (rel_result.score \in 0..20 /\ ~rel_result.kill_switch)
    /\ (SetupReturned /\ stock_df.rows = 0) => IsError(result)
    /\ (SetupReturned /\ IsError(result)) =>
          /\ DOMAIN result = TradeSetupKeys \cup {"error"}
          /\ result.buy_min = 0 /\ result.buy_max = 0 /\ result.sell_stop = 0
          /\ result.target_safe = 0 /\ result.target_aggro = 0
    /\ (Returned /\ ~FetchFailed) =>
          /\ ScoreResultKeys \subseteq DOMAIN result
          /\ "error" \notin DOMAIN result
          /\ result.breakdown.technicals = tech_result.score
          /\ result.breakdown.market_regime = regime_result.score
          /\ result.breakdown.details.market_regime = regime_result.details
          /\ result.breakdown.details.relative_strength = rel_result.details

\* calculate_score returned a complete result although two scorers failed
C12_Witness ==
    /\ Returned /\ ~FetchFailed
    /\ RegimeFailed /\ RelFailed
    /\ ScoreResultKeys \subseteq DOMAIN result
    /\ "error" \in DOMAIN result.breakdown.details.market_regime

\* C18: the three scorers are side-effect free: a call of
\* calculate_technicals, calculate_market_regime or
\* calculate_relative_strength leaves the series it was given (their columns
\* and values) unchanged.
C18_ScorersLeaveSeriesUnchanged ==
    [][(Technicals \/ Regime \/ RelativeStrength)
          => UNCHANGED <<stock_df, spy_df, vix_df>>]_vars

\* The details keys of each scorer on one of its branches: an uptrend with
\* RSI and EMA20 defined, a market above its SMA50 with the VIX at 15, a
\* leader
AlignedStock == Frame(250, 100, 95, Num(80), Num(100), Num(45), NaN, NaN)
AlignedSpy == Frame(250, 100, 100, NaN, NaN, NaN, Num(95), NaN)
TechnicalsKeys == DOMAIN calculate_technicals(AlignedStock).details
RegimeKeys == DOMAIN calculate_market_regime(AlignedSpy, VixFrame(15)).details
RelativeStrengthKeys ==
    DOMAIN calculate_relative_strength(AlignedStock, AlignedSpy).details

\* C19: for each scorer the key set of the returned details map is the same
\* on every branch the scorer can take (trend branches, indicators defined
\* or not, VIX present or absent, kill switch / leader / laggard, internal
\* error).
C19_DetailsKeysFixed ==
    /\ tech_result # NoResult => DOMAIN tech_result.details = TechnicalsKeys
    /\ regime_result # NoResult => DOMAIN regime_result.details = RegimeKeys
    /\ rel_result # NoResult => DOMAIN rel_result.details = RelativeStrengthKeys

-----------------------------------------------------------------------------
(* Properties of analyze_ticker *)

\* analyze_ticker answered 200 with a scored body
Responded == pc = "responded" /\ response.status = 200

\* C20: for every integer sentiment s in -10..10 the added points are
\* round(((s + 10) / 20) * 10) (halves to the even neighbour) clamped to
\* 0..10: s = -10 gives 0, s = 0 gives 5, s = 10 gives 10, and no lower
\* sentiment gives more points; the response score is
\* min(100, engine score + points), so it lies in 0..100.
C20_AiPointsAndCap ==
    Responded =>
        LET s == ai_result.sentiment_score
            points == response.body.breakdown.ai_sentiment
        IN  /\ s \in -10..10
            /\ points = Max(0, Min(10, round_half_even(s + 10, 2)))
            /\ points \in 0..10
            /\ s = -10 => points = 0
            /\ s = 0 => points = 5
            /\ s = 10 => points = 10
            /\ \A t \in -10..s : ai_points(t) <= points
            /\ response.body.score = Min(100, result.score + points)
            /\ response.body.score \in 0..100

\* A half rounded to the even neighbour (s = 9: 9.5 gives 10) and a score
\* held at 100
C20_Witness ==
    /\ Responded
    /\ ai_result.sentiment_score = 9
    /\ response.body.breakdown.ai_sentiment = 10
    /\ result.score = 95
    /\ response.body.score = 100

\* The AI analysis was not asked for or not available (placeholder), or
\* analyze_context fell back on its `except` (one of the three fallbacks)
AiFailedOrDisabled == ai_result # NoResult /\ ai_result.analysis # "AI analysis"

\* C21: when the AI analysis fails (analyze_context hits its fallback) or is
\* disabled (use_ai false or no market analyst), the adjustment added in
\* analyze_ticker is 0 and the response score equals the engine's score.
C21_NoAiNoAdjustment ==
    (Responded /\ AiFailedOrDisabled) =>
        /\ response.body.breakdown.ai_sentiment = 0
        /\ response.body.score = result.score

\* C22: without the kill switch, the verdict of the response is what the
\* engine's _get_verdict gives for the adjusted score (thresholds 80/60/40,
\* the same four verdict strings).
C22_SameVerdictMapping ==
    (Responded /\ "warning" \notin DOMAIN response.body) =>
        /\ response.body.score \in 0..100
        /\ response.body.verdict = get_verdict(response.body.score, FALSE)

\* C23: when the kill switch fired the response keeps the veto whatever the
\* AI sentiment: score 0, verdict "AVOID (Rel. Weakness)", a 'warning' equal
\* to the engine's reason, an empty trade_setup; and a 'warning' is present
\* only when the kill switch fired.
C23_VetoSurvivesAi ==
    Responded =>
        /\ "reason" \in DOMAIN result =>
              /\ response.body.score = 0
              /\ response.body.verdict = "AVOID (Rel. Weakness)"
              /\ "warning" \in DOMAIN response.body
              /\ response.body.warning = result.reason
              /\ response.body.trade_setup = <<>>
        /\ "warning" \in DOMAIN response.body =>
              ("reason" \in DOMAIN result /\ KillCase)

-----------------------------------------------------------------------------
(* Properties of the license gate and of the Stripe webhook *)

\* The header of request r names no license that is active
NoActiveLicense(r) ==
    \/ reqs[r].key = 0
    \/ reqs[r].key \notin DOMAIN licenses
    \/ licenses[reqs[r].key].status # "active"

\* Request r takes a step
Steps(r) == reqs'[r] # reqs[r]

\* C24: an endpoint wrapped by require_license runs its handler only after
\* validate_license succeeded for the key of that request: a request whose key
\* is missing, unknown or of a license that is not active when it is validated
\* is answered 401 at once, and the handler is entered only from a successful
\* validation of an active license.
C24_HandlerOnlyAfterValidation ==
    [][\A r \in 1..MaxRequests :
          /\ (reqs[r].pc = "validate" /\ Steps(r) /\ NoActiveLicense(r))
                => (reqs'[r].pc = "done" /\ reqs'[r].status = 401)
          /\ (reqs'[r].pc = "handler" /\ Steps(r))
                => /\ reqs[r].pc = "record_usage"
                   /\ reqs[r].loaded # NoResult
                   /\ reqs[r].loaded.status = "active"
          /\ (reqs'[r].message = "handled" /\ Steps(r))
                => reqs[r].pc = "handler"]_vars

\* A request with the key of a revoked license was turned away, and another
\* went through to the handler
C24_Witness ==
    \E r, q \in 1..MaxRequests :
        /\ reqs[r].kind = "api" /\ reqs[r].status = 401
        /\ reqs[r].message = "License is revoked"
        /\ reqs[q].kind = "api" /\ reqs[q].message = "handled"

\* The keys of the licenses that are revoked
Revoked(table) == {k \in DOMAIN table : table[k].status = "revoked"}

\* C25: the webhook changes license state only for verified events.  A delivery
\* for which verify_webhook_signature returns no event (missing secret, missing
\* signature, invalid payload or invalid signature) is answered 400 and leaves
\* the table as it is; a webhook request adds a license only for a verified
\* checkout.session.completed event with a customer email, and revokes one only
\* for a verified customer.subscription.deleted event.
C25_WebhookNeedsVerifiedEvent ==
    [][\A r \in 1..MaxRequests :
          (reqs[r].pc = "webhook" /\ Steps(r))
             => LET delivery == reqs[r].delivery
                IN  /\ delivery.check # "ok"
                         => (reqs'[r].status = 400 /\ licenses' = licenses)
                    /\ Len(licenses') # Len(licenses)
                         => /\ delivery.check = "ok"
                            /\ delivery.event.type = "checkout.session.completed"
                            /\ delivery.event.email # ""
                    /\ Revoked(licenses') # Revoked(licenses)
                         => /\ delivery.check = "ok"
                            /\ delivery.event.type = "customer.subscription.deleted"]_vars

\* A delivery that asks for a license without a valid signature was answered
\* 400, and a verified one has created a license and a verified one revoked it
C25_Witness ==
    \E r, q \in 1..MaxRequests :
        /\ reqs[r].kind = "webhook" /\ reqs[r].status = 400
        /\ reqs[r].delivery.check = "invalid_signature"
        /\ reqs[r].delivery.event.type = "checkout.session.completed"
        /\ reqs[q].kind = "webhook" /\ reqs[q].status = 200
        /\ reqs[q].message \in {"license_key", "revoked"}

\* The keys of the active licenses of a customer
ActiveOf(table, email) ==
    {k \in DOMAIN table : table[k].email = email /\ table[k].status = "active"}

\* C26: after handle_subscription_deleted returns a 'revoked' result for a
\* customer, no license with that customer's email is active, however many
\* licenses were created for that email.
C26_RevokesEveryLicenseOfCustomer ==
    [][\A r \in 1..MaxRequests :
          (reqs[r].pc = "webhook" /\ Steps(r) /\ reqs'[r].message = "revoked")
             => ActiveOf(licenses', reqs[r].delivery.event.email) = {}]_vars

\* The requests whose validate_license call for key k has returned (True, license)
Validated(k) ==
    {r \in 1..MaxRequests :
        /\ reqs[r].kind = "api" /\ reqs[r].key = k
        /\ reqs[r].pc \in {"handler", "done"}
        /\ reqs[r].loaded # NoResult}

\* C27: under any interleaving of concurrent requests that validate the same
\* license key, request_count after N successful validate_license calls is its
\* initial value (0 for a new license) plus N.
C27_NoLostUpdate ==
    \A k \in DOMAIN licenses : licenses[k].request_count = Cardinality(Validated(k))

\* C28: revocation is permanent.  Over every sequence of create_license,
\* validate_license, revoke_license, handle_checkout_completed and
\* handle_subscription_deleted a license that is revoked stays revoked, and
\* every validate_license call that finds it revoked fails with
\* "License is revoked".
C28_RevocationIsPermanent ==
    [][/\ \A k \in Revoked(licenses) : k \in Revoked(licenses')
       /\ \A r \in 1..MaxRequests :
             (/\ reqs[r].pc = "validate" /\ Steps(r)
              /\ reqs[r].key \in Revoked(licenses))
                => /\ reqs'[r].pc = "done"
                   /\ reqs'[r].status = 401
                   /\ reqs'[r].message = "License is revoked"]_vars

\* A license was revoked while a request that had loaded it as active was
\* under way; the request has written its usage and the license is still
\* revoked
C28_Witness ==
    \E r \in 1..MaxRequests :
        /\ reqs[r].kind = "api" /\ reqs[r].pc \in {"handler", "done"}
        /\ reqs[r].loaded # NoResult
        /\ reqs[r].key \in Revoked(licenses)
        /\ licenses[reqs[r].key].last_used = r

\* C29: validate_license changes a license record only on success.  A failed
\* validation leaves every license as it is; a successful one adds exactly 1 to
\* request_count of the license of its key and changes no other license; and
\* the answer of the protected endpoint changes nothing.
C29_UsageRecordedOnlyOnSuccess ==
    [][\A r \in 1..MaxRequests :
          /\ (reqs[r].pc = "validate" /\ Steps(r)) => licenses' = licenses
          /\ (reqs[r].pc = "record_usage" /\ Steps(r))
                => LET k == reqs[r].key
                   IN  /\ licenses'[k].request_count = licenses[k].request_count + 1
                       /\ \A j \in DOMAIN licenses \ {k} : licenses'[j] = licenses[j]
          /\ (reqs[r].pc = "handler" /\ Steps(r)) => licenses' = licenses]_vars

-----------------------------------------------------------------------------
(* Properties of calculate_trade_setup *)

\* calculate_trade_setup returned from its try block
SetupComputed == SetupReturned /\ ~IsError(result)

\* C13: every trade setup returned on the non-error path satisfies
\* sell_stop < buy_min < buy_max < target_safe, for all positive price,
\* EMA20, SMA50 and SMA200 values (defined or undefined).
C13_SetupOrdering ==
    SetupComputed =>
        /\ result.sell_stop < result.buy_min
        /\ result.buy_min < result.buy_max
        /\ result.buy_max < result.target_safe

\* C14: sell_stop is max(SMA200 * 0.99, price * 0.92) when the SMA200 is
\* defined and price * 0.92 otherwise, so in every returned trade setup
\* sell_stop >= 0.92 * price.
C14_StopLoss ==
    SetupReturned =>
        /\ SetupComputed =>
              result.sell_stop =
                  (IF ~isna(stock_df.sma_200)
                   THEN Max(stock_df.sma_200.v * 990, stock_df.close * 920)
                   ELSE stock_df.close * 920)
        /\ result.sell_stop >= stock_df.close * 920

\* The SMA200 level is the higher one and sets the stop
C14_Witness ==
    /\ SetupComputed
    /\ ~isna(stock_df.sma_200)
    /\ stock_df.sma_200.v * 990 > stock_df.close * 920
    /\ result.sell_stop = stock_df.sma_200.v * 990

\* The 50 SMA is a resistance above the price and closer than 4%
NearResistance ==
    /\ ~isna(stock_df.sma_50)
    /\ stock_df.sma_50.v > stock_df.close
    /\ (stock_df.sma_50.v - stock_df.close) * 100 < 4 * stock_df.close

\* C15: target_safe is SMA50 * 0.995 exactly when the SMA50 is defined,
\* above the price and closer to it than 4% of the price, and price * 1.04
\* in every other case (an SMA50 exactly 4% above included); target_aggro
\* is always price * 1.10 and target_safe < target_aggro.
C15_Targets ==
    SetupComputed =>
        /\ NearResistance => result.target_safe = stock_df.sma_50.v * 995
        /\ ~NearResistance => result.target_safe = stock_df.close * 1040
        /\ result.target_aggro = stock_df.close * 1100
        /\ result.target_safe < result.target_aggro

\* The retargeted case: the safe target sits just below the SMA50
C15_Witness ==
    /\ SetupComputed /\ NearResistance
    /\ result.target_safe = stock_df.sma_50.v * 995
    /\ result.target_safe < stock_df.close * 1040

PriceAboveSma200 == ~isna(stock_df.sma_200) /\ stock_df.close > stock_df.sma_200.v

\* C16: on every path, the error path included, 75 <= prob_safe <= 85 and
\* 20 <= prob_aggro <= 55; prob_safe is 85 and prob_aggro is raised by 10
\* exactly when price > SMA200, and prob_aggro is lowered by 15 exactly when
\* volatility_supported is false.
C16_Probabilities ==
    SetupReturned =>
        /\ 75 <= result.prob_safe /\ result.prob_safe <= 85
        /\ 20 <= result.prob_aggro /\ result.prob_aggro <= 55
        /\ result.prob_safe = (IF PriceAboveSma200 THEN 85 ELSE 75)
        /\ result.prob_aggro =
              40 + (IF PriceAboveSma200 THEN 10 ELSE 0)
                 - (IF result.volatility_supported THEN 0 ELSE 15)
        /\ SetupComputed =>
              (result.volatility_supported <=>
                  ~(~isna(stock_df.atr) /\ 100 * stock_df.close > 5000 * stock_df.atr.v))

\* Above the 200 SMA with a 10% move of more than five ATR
C16_Witness ==
    /\ SetupComputed
    /\ PriceAboveSma200
    /\ ~result.volatility_supported
    /\ result.prob_safe = 85 /\ result.prob_aggro = 35

\* C30: on the non-error path of calculate_trade_setup target_safe is strictly
\* above the current price and target_safe_pct is positive, also when the
\* target is moved to just under a 50 SMA above the price.
C30_SafeTargetAbovePrice ==
    SetupComputed =>
        /\ result.target_safe > stock_df.close * 1000
        /\ result.target_safe_pct > 0

-----------------------------------------------------------------------------
(* Properties of calculate_technicals *)

\* calculate_technicals returned for a frame that has a last close
Scored == tech_result # NoResult /\ stock_df.rows > 0
Downtrend == ~isna(stock_df.sma_200) /\ stock_df.close < stock_df.sma_200.v
Uptrend == ~isna(stock_df.sma_200) /\ stock_df.close > stock_df.sma_200.v

\* C3: for every series whose last close is below its defined SMA200 the
\* technical score is at most 40, whatever the RSI and EMA bonuses are
\* (undefined indicators included).
C3_DowntrendCap ==
    (Scored /\ Downtrend) => tech_result.score <= 40

C3_Witness ==
    /\ Scored /\ Downtrend
    /\ tech_result.details.rsi_score = 30
    /\ tech_result.details.ema_score = 20
    /\ tech_result.score = 40

\* C4: the technical score is clamp(base + rsi_bonus + ema_bonus, 0, cap)
\* with (base, cap) = (50, 100) above the SMA200, (0, 40) below it and
\* (25, 100) when the SMA200 is undefined; an undefined RSI or EMA20 adds 0
\* and does not abort the computation.
C4_TechnicalsFormula ==
    Scored =>
        LET d == tech_result.details
            sum(base) == base + d.rsi_score + d.ema_score
        IN  /\ "error" \notin DOMAIN d
            /\ Uptrend => tech_result.score = Max(0, Min(sum(50), 100))
            /\ Downtrend => tech_result.score = Max(0, Min(sum(0), 40))
            /\ isna(stock_df.sma_200) => tech_result.score = Max(0, Min(sum(25), 100))
            /\ isna(stock_df.rsi) => d.rsi_score = 0
            /\ isna(stock_df.ema_20) => d.ema_score = 0

C4_Witness ==
    /\ Scored /\ Downtrend
    /\ isna(stock_df.ema_20)
    /\ tech_result.details.rsi_score = -20
    /\ tech_result.score = 0

\* C5: for a defined RSI exactly one band applies: RSI > 70 gives -20,
\* 50 <= RSI <= 70 gives +10, 30 <= RSI < 50 gives +30, RSI < 30 gives +10.
C5_RsiBands ==
    (Scored /\ ~isna(stock_df.rsi)) =>
        LET r == stock_df.rsi.v
            bonus == tech_result.details.rsi_score
        IN  /\ r > 70 => bonus = -20
            /\ (50 <= r /\ r <= 70) => bonus = 10
            /\ (30 <= r /\ r < 50) => bonus = 30
            /\ r < 30 => bonus = 10

C5_Witness ==
    /\ Scored /\ ~isna(stock_df.rsi)
    /\ stock_df.rsi.v = 50
    /\ tech_result.details.rsi_score = 10

\* C6: with d = (close - EMA20)/EMA20*100 for a defined EMA20 the bonus is
\* +20 when |d| <= 2, -10 when d > 10 or d < -10, and 0 otherwise; d = 2 and
\* d = -2 give +20, d = 10 and d = -10 give 0.
C6_EmaBands ==
    (Scored /\ ~isna(stock_df.ema_20)) =>
        LET ema == stock_df.ema_20.v
            diff == stock_df.close - ema       \* d = diff/ema*100, ema > 0
            bonus == tech_result.details.ema_score
        IN  /\ (-2 * ema <= 100 * diff /\ 100 * diff <= 2 * ema) => bonus = 20
            /\ 100 * diff > 10 * ema => bonus = -10
            /\ 100 * diff < -10 * ema => bonus = -10
            /\ (2 * ema < 100 * diff /\ 100 * diff <= 10 * ema) => bonus = 0
            /\ (-10 * ema <= 100 * diff /\ 100 * diff < -2 * ema) => bonus = 0

C6_Witness ==
    /\ Scored /\ ~isna(stock_df.ema_20)
    /\ 100 * (stock_df.close - stock_df.ema_20.v) = 10 * stock_df.ema_20.v
    /\ tech_result.details.ema_score = 0

\* The series of the state with its last RSI replaced
with_rsi(df, r) == [df EXCEPT !.rsi = Num(r)]

\* calculate_technicals returned for a series whose RSI is 75
ScoredAtRsi75 == Scored /\ stock_df.rsi = Num(75)

\* The sum base + rsi_score + ema_score of the call lies within 0..cap for
\* RSI 75 and for RSI 45: uptrend, or unknown trend without the EMA penalty
Unclamped ==
    \/ Uptrend
    \/ isna(stock_df.sma_200) /\ tech_result.details.ema_score >= 0

\* C17 as stated: with the trend branch and the EMA bonus held fixed, RSI 45
\* instead of RSI 75 raises the returned score by exactly 50 points, for
\* every trend branch and every EMA bonus.
C17_RsiSwingIsFifty ==
    ScoredAtRsi75 =>
        calculate_technicals(with_rsi(stock_df, 45)).score = tech_result.score + 50

\* C17 amended: RSI 45 instead of RSI 75 raises the RSI bonus by exactly 50
\* (-20 to +30) and strictly raises the returned score; the score rises by
\* exactly 50 where the clamp to 0..cap does not bind (uptrend, or unknown
\* trend with an EMA bonus >= 0) and by 20 to 45 where it does (downtrend:
\* min(40, 30 + ema bonus); unknown trend with the EMA penalty: 45).
C17_RsiSwingClamped ==
    ScoredAtRsi75 =>
        LET at45 == calculate_technicals(with_rsi(stock_df, 45))
            rise == at45.score - tech_result.score
            ema_score == tech_result.details.ema_score
        IN  /\ at45.details.rsi_score = tech_result.details.rsi_score + 50
            /\ at45.details.ema_score = ema_score
            /\ rise > 0
            /\ Unclamped => rise = 50
            /\ Downtrend => rise = Min(40, 30 + ema_score)
            /\ (isna(stock_df.sma_200) /\ ema_score < 0) => rise = 45

\* A downtrend at the EMA20: 0 at RSI 75 (floor), 40 at RSI 45 (cap)
C17_Witness ==
    /\ ScoredAtRsi75 /\ Downtrend
    /\ tech_result.details.ema_score = 20
    /\ tech_result.score = 0
    /\ calculate_technicals(with_rsi(stock_df, 45)).score = 40

-----------------------------------------------------------------------------
(* Properties of calculate_market_regime *)

\* C7: the regime score is max(0, trend_points + vix_points), trend_points
\* being 15 when the market close is above its SMA50 and 0 otherwise (an
\* undefined SMA50 included), vix_points +15 below 20, -20 above 30 and 0
\* in between; the score is one of 0, 15, 30.
C7_RegimeFormula ==
    (regime_result # NoResult /\ spy_df.rows > 0) =>
        LET trend_points ==
                IF ~isna(spy_df.sma_50) /\ spy_df.close > spy_df.sma_50.v THEN 15 ELSE 0
            vix_points ==
                IF vix_df = NoFrame \/ vix_df.rows = 0 THEN 0
                ELSE IF vix_df.close < 20 THEN 15
                ELSE IF vix_df.close > 30 THEN -20
                ELSE 0
        IN  /\ regime_result.score = Max(0, trend_points + vix_points)
            /\ regime_result.score \in {0, 15, 30}

-----------------------------------------------------------------------------
(* Properties of calculate_relative_strength *)

\* C9: the relative strength score is 0 or 20; kill_switch is true exactly
\* when the stock's 5-bar return is < 0 and the market's is > 0; without the
\* kill switch the score is 20 exactly when the stock's return is strictly
\* above the market's (equal returns give 0).
C9_RelativeStrength ==
    rel_result # NoResult =>
        LET beats == (stock_df.close - stock_df.close6) * spy_df.close6
                        > (spy_df.close - spy_df.close6) * stock_df.close6
        IN  /\ rel_result.score \in {0, 20}
            /\ rel_result.kill_switch <=> KillCase
            /\ (stock_df.rows >= 6 /\ spy_df.rows >= 6 /\ ~KillCase) =>
                  (rel_result.score = 20 <=> beats)

\* Equal, non-zero returns over different price levels
C9_Witness ==
    /\ rel_result # NoResult
    /\ stock_df.rows >= 6 /\ spy_df.rows >= 6
    /\ stock_df.close6 # spy_df.close6
    /\ stock_df.close > stock_df.close6
    /\ (stock_df.close - stock_df.close6) * spy_df.close6
          = (spy_df.close - spy_df.close6) * stock_df.close6
    /\ rel_result.score = 0 /\ ~rel_result.kill_switch

=============================================================================
